---- MODULE Spec2Model ----
(***************************************************************************)
(* Model of the document pipeline of app/processing.py, of the Gemini     *)
(* classification of app/gemini_utils.py and of the converters of         *)
(* app/docling_utils.py.                                                   *)
(*                                                                         *)
(* A text is abstracted to its origin, its length and whether it is blank  *)
(* (empty or whitespace only).  A JSON object (a Python dict) is           *)
(* abstracted to its key set, to the value of its "transactions",          *)
(* "extracted_text" and "file_name" keys.                                  *)
(***************************************************************************)
EXTENDS Integers, Sequences, FiniteSets, TLC

(***************************************************************************)
(* Bounds of the model.                                                    *)
(***************************************************************************)
\* texts are at most MAX_GEMINI_INPUT_LENGTH + MaxExtra characters long
MaxExtra == 1
\* page counts range over 0 .. MaxPages
MaxPages == 2
\* a batch holds at most MaxFiles directory entries
MaxFiles == 2
\* transaction lists of the deep extraction hold up to MaxTx items
MaxTx == 2

(***************************************************************************)
(* config.py                                                               *)
(***************************************************************************)
MAX_GEMINI_INPUT_LENGTH == 30000

SUPPORTED_EXTENSIONS == {".png", ".jpg", ".jpeg", ".pdf", ".doc", ".docx"}

(***************************************************************************)
(* schemas.py: the "required" list of every schema.                        *)
(***************************************************************************)
PURCHASE_INVOICE_REQUIRED ==
  {"purchase_invoice_number", "purchase_invoice_date", "currency",
   "reverse_charge", "import_purchase", "vendor", "buyer", "items", "totals",
   "payment_terms", "authorized_signatory"}

SALES_INVOICE_REQUIRED ==
  {"sales_invoice_number", "sales_invoice_date", "currency", "reverse_charge",
   "import_sale", "vendor", "buyer", "items", "totals", "payment_terms",
   "authorized_signatory"}

RECEIPT_REQUIRED ==
  {"receipt_number", "receipt_date", "receipt_type", "currency",
   "payment_method", "payer", "payee", "amount_paid", "gst_amount", "items",
   "receipt_status", "authorized_signatory"}

PURCHASE_ORDER_REQUIRED ==
  {"purchase_order_number", "purchase_order_date", "buyer", "supplier",
   "items", "total_amount", "currency", "authorized_signatory"}

CHALLAN_REQUIRED ==
  {"challan_number", "challan_date", "challan_type", "vendor", "buyer",
   "items"}

BANK_STATEMENT_REQUIRED ==
  {"account_holder", "bank_details", "account_summary", "transactions"}

SIMPLE_TEXT_REQUIRED == {"file_name", "extracted_text"}

\* the seven document kinds of the classification prompt
DocumentKinds ==
  {"bank_statement", "simple_text", "purchase_invoice", "sales_invoice",
   "receipt", "purchase_order", "challan"}

\* the five kinds validated against their schema's "required" list
SchemaKinds ==
  {"purchase_invoice", "sales_invoice", "receipt", "purchase_order", "challan"}

Required(label) ==
  CASE label = "purchase_invoice" -> PURCHASE_INVOICE_REQUIRED
    [] label = "sales_invoice" -> SALES_INVOICE_REQUIRED
    [] label = "receipt" -> RECEIPT_REQUIRED
    [] label = "purchase_order" -> PURCHASE_ORDER_REQUIRED
    [] label = "challan" -> CHALLAN_REQUIRED
    [] label = "bank_statement" -> BANK_STATEMENT_REQUIRED
    [] label = "simple_text" -> SIMPLE_TEXT_REQUIRED
    [] OTHER -> {}

(***************************************************************************)
(* Texts.                                                                  *)
(***************************************************************************)
NoText == [who |-> "none", len |-> 0, blank |-> TRUE]

\* the texts an extractor can return for a document
DocTexts ==
  {[who |-> "doc", len |-> 0, blank |-> TRUE],
   [who |-> "doc", len |-> 1, blank |-> TRUE],
   [who |-> "doc", len |-> 1, blank |-> FALSE]}
  \cup {[who |-> "doc", len |-> MAX_GEMINI_INPUT_LENGTH + k, blank |-> FALSE] :
          k \in 0..MaxExtra}

\* a text the language model made up
LlmText == [who |-> "llm", len |-> 1, blank |-> FALSE]

\* IsBlank without the strip(): whitespace counts as text
IsBlankNoStrip(text) == text.len = 0

\* Python: not s or not s.strip()
IsBlank(text) == text.len = 0 \/ text.blank

\* Truncate that cuts nothing
TruncateKeepsAll(text, n) == text

\* Python: s[:n]
Truncate(text, n) == [text EXCEPT !.len = IF text.len > n THEN n ELSE text.len]

(***************************************************************************)
(* JSON values.                                                            *)
(***************************************************************************)
NoName == [stem |-> "", ext |-> ""]

Dict(keys, txIsList, ntx, text, fname) ==
  [shape |-> "dict", keys |-> keys, txIsList |-> txIsList, ntx |-> ntx,
   text |-> text, file_name |-> fname]

EmptyDict == Dict({}, FALSE, 0, NoText, NoName)

\* a JSON value that is not an object (a list, a string, a number, null)
NonDict == [EmptyDict EXCEPT !.shape = "nondict"]

\* the key is missing from the reply
Absent == [EmptyDict EXCEPT !.shape = "absent"]

\* Python: isinstance(v, dict)
IsDict(v) == v.shape = "dict"

\* Python: not d, for a dict d
IsEmpty(d) == d.keys = {}

\* {"extracted_text": content}
TextDict(content) == Dict({"extracted_text"}, FALSE, 0, content, NoName)

\* Python: dict.get(key, default)
Get(v, default) == IF v.shape = "absent" THEN default ELSE v

\* Python: isinstance(d.get("transactions"), list)
TransactionsIsList(d) == "transactions" \in d.keys /\ d.txIsList

\* HasAll that asks for no key
HasAllAsksNothing(d, required) == TRUE

\* Python: all(key in d for key in required)
HasAll(d, required) == required \subseteq d.keys

(***************************************************************************)
(* gemini_utils.py                                                         *)
(***************************************************************************)
\* the prompt of the classification call: the page context and the first
\* MAX_GEMINI_INPUT_LENGTH characters of the content
ClassifyPrompt(content, is_multi_page) ==
  [page_context |-> IF is_multi_page THEN "the first page of a multi-page document"
                    ELSE "a single-page document",
   truncated_content |-> Truncate(content, MAX_GEMINI_INPUT_LENGTH),
   truncation_warning |-> content.len > MAX_GEMINI_INPUT_LENGTH]

\* an object whose keys are `keys`, none of them one of the modelled values
Keys(keys) == Dict(keys, FALSE, 0, NoText, NoName)

\* what "document_type" can hold in a reply
ReplyLabels ==
  DocumentKinds \cup {"Bank_Statement", "RECEIPT", "invoice", "<absent>",
                      "<nonstring>"}

\* Python: str.lower()
Lower(s) ==
  CASE s = "Bank_Statement" -> "bank_statement"
    [] s = "RECEIPT" -> "receipt"
    [] s = ".PNG" -> ".png"
    [] s = ".PDF" -> ".pdf"
    [] OTHER -> s

\* payloads shaped after one of the five schemas: complete, complete with an
\* extra key, and with each one of the required keys left out
SchemaPayloads(label) ==
  {Keys(Required(label)), Keys(Required(label) \cup {"notes"})}
  \cup {Keys(Required(label) \ {f}) : f \in Required(label)}

\* payloads shaped after the bank statement schema (of a first page)
BankPayloads ==
  {Dict(k, l, n, NoText, NoName) :
     k \in {BANK_STATEMENT_REQUIRED,
            BANK_STATEMENT_REQUIRED \ {"account_holder"},
            {"transactions"}},
     l \in BOOLEAN, n \in 0..1}
  \cup {Keys(BANK_STATEMENT_REQUIRED \ {"transactions"})}

\* payloads shaped after the simple text schema
SimplePayloads(prompt) ==
  {Dict(k, FALSE, 0, t, NoName) :
     k \in {{"extracted_text"}, {"extracted_text", "file_name"}},
     t \in {prompt.truncated_content, LlmText}}
  \cup {Keys({"file_name"})}

\* what "extracted_data" can hold in a reply
ReplyPayloads(prompt) ==
  UNION {SchemaPayloads(l) : l \in SchemaKinds}
  \cup {p \in BankPayloads : p.txIsList \/ p.ntx = 0}
  \cup SimplePayloads(prompt)
  \cup {EmptyDict, NonDict, Absent}

\* the outcomes of model.generate_content_async(prompt) and response.text:
\* an exception, or a text that is JSON or not, in a markdown fence or not
Replies(prompt) ==
  {[kind |-> "exception", fenced |-> FALSE, json |-> "invalid",
    document_type |-> "<absent>", extracted_data |-> Absent]}
  \cup {[kind |-> "text", fenced |-> f, json |-> j,
         document_type |-> "<absent>", extracted_data |-> Absent] :
          f \in BOOLEAN, j \in {"invalid", "nondict"}}
  \cup {[kind |-> "text", fenced |-> f, json |-> "object",
         document_type |-> l, extracted_data |-> p] :
          f \in BOOLEAN, l \in ReplyLabels, p \in ReplyPayloads(prompt)}

\* clean_invalid_json: the markdown fences are removed
clean_invalid_json(reply) == [reply EXCEPT !.fenced = FALSE]

\* json.loads raises JSONDecodeError on a text that is not JSON; a fence
\* left in the text makes it invalid JSON
JsonDecodeError(text) == text.fenced \/ text.json = "invalid"

\* Validate with the check of the challan payload left out
ValidateNoChallanCheck(doc_type, extracted_data, content) ==
  LET fallback == [doc_type |-> "simple_text", data |-> TextDict(content)]
      keep == [doc_type |-> doc_type, data |-> extracted_data]
  IN  CASE doc_type = "bank_statement" ->
             IF ~IsDict(extracted_data) \/ ~TransactionsIsList(extracted_data)
             THEN fallback ELSE keep
        [] doc_type = "simple_text" ->
             IF ~IsDict(extracted_data)
                \/ "extracted_text" \notin extracted_data.keys
             THEN fallback ELSE keep
        [] doc_type \in SchemaKinds \ {"challan"} ->
             IF ~IsDict(extracted_data)
                \/ ~HasAll(extracted_data, Required(doc_type))
             THEN fallback ELSE keep
        [] doc_type = "challan" -> keep
        [] OTHER -> fallback

\* Validate that keeps a bank statement without looking at its transactions
ValidateKeepsAnyBank(doc_type, extracted_data, content) ==
  LET fallback == [doc_type |-> "simple_text", data |-> TextDict(content)]
      keep == [doc_type |-> doc_type, data |-> extracted_data]
  IN  CASE doc_type = "bank_statement" ->
             IF ~IsDict(extracted_data) THEN fallback ELSE keep
        [] doc_type = "simple_text" ->
             IF ~IsDict(extracted_data)
                \/ "extracted_text" \notin extracted_data.keys
             THEN fallback ELSE keep
        [] doc_type \in SchemaKinds ->
             IF ~IsDict(extracted_data)
                \/ ~HasAll(extracted_data, Required(doc_type))
             THEN fallback ELSE keep
        [] OTHER -> fallback

\* the validation of lines 113-152
Validate(doc_type, extracted_data, content) ==
  LET fallback == [doc_type |-> "simple_text", data |-> TextDict(content)]
      keep == [doc_type |-> doc_type, data |-> extracted_data]
  IN  CASE doc_type = "bank_statement" ->
             IF ~IsDict(extracted_data) \/ ~TransactionsIsList(extracted_data)
             THEN fallback ELSE keep
        [] doc_type = "simple_text" ->
             IF ~IsDict(extracted_data)
                \/ "extracted_text" \notin extracted_data.keys
             THEN fallback ELSE keep
        [] doc_type \in SchemaKinds ->
             IF ~IsDict(extracted_data)
                \/ ~HasAll(extracted_data, Required(doc_type))
             THEN fallback ELSE keep
        [] OTHER -> fallback

\* classify_and_extract_with_gemini without the except clause of line 157
ClassifyWithoutOuterExcept(content, is_multi_page, reply) ==
  LET fallback == [doc_type |-> "simple_text", data |-> TextDict(content)]
      cleaned == clean_invalid_json(reply)
  IN  IF reply.kind = "exception"
      THEN [doc_type |-> "Exception", data |-> EmptyDict]
      ELSE IF JsonDecodeError(cleaned) \/ cleaned.json # "object" THEN fallback
      ELSE IF cleaned.document_type = "<nonstring>"
      THEN [doc_type |-> "AttributeError", data |-> EmptyDict]
      ELSE Validate(
             Lower(IF cleaned.document_type = "<absent>" THEN "simple_text"
                   ELSE cleaned.document_type),
             Get(cleaned.extracted_data, EmptyDict),
             content)

\* lines 47-161: the reply is cleaned and parsed, the label and the payload
\* are read with their defaults and validated; every exception ends in the
\* fallback
classify_and_extract_with_gemini(content, is_multi_page, reply) ==
  LET fallback == [doc_type |-> "simple_text", data |-> TextDict(content)]
      cleaned == clean_invalid_json(reply)
  IN  IF reply.kind = "exception" THEN fallback
      ELSE IF JsonDecodeError(cleaned) \/ cleaned.json # "object" THEN fallback
      \* .lower() of a value that is no string raises, caught at line 157
      ELSE IF cleaned.document_type = "<nonstring>" THEN fallback
      ELSE Validate(
             Lower(IF cleaned.document_type = "<absent>" THEN "simple_text"
                   ELSE cleaned.document_type),
             Get(cleaned.extracted_data, EmptyDict),
             content)

\* the object a reply of the full extraction can hold
DeepPayloads ==
  {Dict(BANK_STATEMENT_REQUIRED, TRUE, n, NoText, NoName) : n \in 0..MaxTx}
  \cup {Dict({"transactions"}, FALSE, 0, NoText, NoName),
        Keys({"error"}), EmptyDict}

DeepReplies ==
  {[kind |-> "exception", fenced |-> FALSE, json |-> "invalid",
    document_type |-> "<absent>", extracted_data |-> Absent]}
  \cup {[kind |-> "text", fenced |-> f, json |-> j,
         document_type |-> "<absent>", extracted_data |-> Absent] :
          f \in BOOLEAN, j \in {"invalid", "nondict"}}
  \cup {[kind |-> "text", fenced |-> f, json |-> "object",
         document_type |-> "<absent>", extracted_data |-> p] :
          f \in BOOLEAN, p \in DeepPayloads}

\* for the full extraction the reply itself is the object: extracted_data
\* holds it
extract_full_bank_statement_with_gemini(full_content, reply) ==
  LET cleaned == clean_invalid_json(reply)
  IN  IF reply.kind = "exception" THEN EmptyDict
      ELSE IF JsonDecodeError(cleaned) \/ cleaned.json # "object"
      THEN EmptyDict
      ELSE cleaned.extracted_data

(***************************************************************************)
(* Paths and the input tree.                                               *)
(***************************************************************************)
\* root "in" is the resolved input folder, "ext" a place outside of it
FileAt(root, dir, stem, ext) ==
  [root |-> root, dir |-> dir, stem |-> stem, ext |-> ext]

NoPath == FileAt("", <<>>, "", "")

\* a directory entry below the input folder: a regular file, a directory or
\* a symbolic link, with the path Path.resolve() gives for it
DirEntry(path, kind, target) == [path |-> path, kind |-> kind, target |-> target]

\* the entries an input tree is made of, in the order rglob("*") yields them
UniverseSeq ==
  << DirEntry(FileAt("in", <<>>, "c", ".pdf"), "file",
              FileAt("in", <<>>, "c", ".pdf")),
     DirEntry(FileAt("in", <<>>, "c", ".PNG"), "file",
              FileAt("in", <<>>, "c", ".PNG")),
     DirEntry(FileAt("in", <<>>, "l", ".pdf"), "link",
              FileAt("in", <<>>, "c", ".pdf")),
     DirEntry(FileAt("in", <<>>, "o", ".pdf"), "link",
              FileAt("ext", <<>>, "o", ".pdf")),
     DirEntry(FileAt("in", <<>>, "n", ".txt"), "file",
              FileAt("in", <<>>, "n", ".txt")),
     DirEntry(FileAt("in", <<>>, "m", ".pdf"), "link",
              FileAt("in", <<>>, "n", ".txt")),
     DirEntry(FileAt("in", <<>>, "a", ""), "dir",
              FileAt("in", <<>>, "a", "")),
     DirEntry(FileAt("in", <<"a">>, "c", ".docx"), "file",
              FileAt("in", <<"a">>, "c", ".docx")) >>

Universe == {UniverseSeq[k] : k \in DOMAIN UniverseSeq}

\* Path.is_file(): follows a link; a link to a file that is not there is no file
is_file(e, tree) ==
  \/ e.kind = "file"
  \/ /\ e.kind = "link"
     /\ \/ e.target.root = "ext"
        \/ \E t \in tree : t.kind = "file" /\ t.path = e.target

\* Path.name
Name(path) == [stem |-> path.stem, ext |-> path.ext]

\* Path.relative_to(base_input_folder) raises ValueError outside of the folder
RelativeToRaises(path) == path.root # "in"

\* OutputJsonPath that drops the directories below the input folder
OutputJsonPathFlat(path) == FileAt("out", <<>>, path.stem, ".json")

\* output_folder / relative_path.parent / f"{stem}.json"
OutputJsonPath(path) == FileAt("out", path.dir, path.stem, ".json")

\* docling_utils.get_input_format
get_input_format(path) ==
  LET ext == Lower(path.ext)
  IN  CASE ext = ".pdf" -> "PDF"
        [] ext \in {".png", ".jpg", ".jpeg"} -> "IMAGE"
        [] ext = ".doc" -> "DOC"
        [] ext = ".docx" -> "DOCX"
        [] OTHER -> "ValueError"

\* the condition of line 190 of processing.py
IsSupported(e, tree) ==
  is_file(e, tree) /\ Lower(e.path.ext) \in SUPPORTED_EXTENSIONS

(***************************************************************************)
(* State.                                                                  *)
(***************************************************************************)
VARIABLES
  inputIsDir,  \* the input folder is an existing directory
  tree,        \* the directory entries below the input folder
  bpc,         \* where process_folder_recursive is
  tasks,       \* its list of tasks: the resolved path of each
  file_count,  \* its count of supported files
  results,     \* the number of results appended at line 217
  caught,      \* the number of exceptions caught at line 218
  tempArea,    \* the TemporaryDirectory: "none", "allocated", "disposed"
  tempFiles,   \* the runs whose temp PDF exists
  outDirs,     \* the directories created below the output folder
  outFiles,    \* the output files: path -> record written last
  writers,     \* history: path -> the runs that wrote it
  run,         \* the runs of process_single_document, by task number
  doneQ,       \* the finished tasks as_completed has not yet handed out
  cur,         \* the task that holds the event loop, 0 if none
  gem,         \* a call of classify_and_extract_with_gemini on its own
  http         \* a request to main.py's process_folder_endpoint

vars ==
  << inputIsDir, tree, bpc, tasks, file_count, results, caught, tempArea,
     tempFiles, outDirs, outFiles, writers, run, doneQ, cur, gem, http >>

batchVars ==
  << http, inputIsDir, tree, bpc, tasks, file_count, results, caught,
     tempArea >>

\* no request to the endpoint
NoHttp ==
  [pc |-> "off", cause |-> "", leaves |-> "", status |-> 0, detail |-> ""]

\* the frame of a run of process_single_document before its first step
NewRun(path) ==
  [pc |-> "ready", input_file_path |-> path, output_json_path |-> NoPath,
   page_count |-> 0, is_multi_page |-> FALSE, extracted_text |-> NoText,
   doc_type |-> "", initial_extracted_data |-> EmptyDict,
   full_bank_text |-> NoText, deep_result |-> EmptyDict,
   final_json_output |-> EmptyDict,
   term |-> "Running", raised |-> FALSE, ncls |-> 0, ndeep |-> 0,
   prompt |-> ClassifyPrompt(NoText, FALSE),
   wrote |-> <<>>, fault |-> "", unlinkFailed |-> FALSE,
   log |-> {},
   \* history: what the reply of the classifier held under "document_type"
   reply_label |-> ""]

NoGem ==
  [pc |-> "off", content |-> NoText, is_multi_page |-> FALSE,
   reply |-> CHOOSE r \in Replies(ClassifyPrompt(NoText, FALSE)) :
               r.kind = "exception",
   doc_type |-> "", data |-> EmptyDict]

NoFiles == [p \in {} |-> EmptyDict]
NoWriters == [p \in {} |-> {}]

\* f with x mapped to v
Put(f, x, v) == [y \in DOMAIN f \cup {x} |-> IF y = x THEN v ELSE f[y]]

Runs == DOMAIN run

Init ==
  /\ inputIsDir \in BOOLEAN
  /\ tree \in {t \in SUBSET Universe : Cardinality(t) <= MaxFiles}
  /\ inputIsDir = FALSE => tree = {}
  /\ bpc = "start"
  /\ tasks = <<>>
  /\ file_count = 0
  /\ results = 0
  /\ caught = 0
  /\ tempArea = "none"
  /\ tempFiles = {}
  /\ outDirs = {}
  /\ outFiles = NoFiles
  /\ writers = NoWriters
  /\ run = <<>>
  /\ doneQ = <<>>
  /\ cur = 0
  /\ gem = NoGem
  /\ http = NoHttp

(***************************************************************************)
(* processing.py: process_single_document, one action per stage.  A run    *)
(* holds the event loop (cur) from the step that resumes it to its next    *)
(* call of the language model, the only place where it is suspended.       *)
(***************************************************************************)
\* The results of the collaborators range over the full sets when one run is
\* looked at on its own (rich), and over a few of them in a batch of runs.
ExceptionReply ==
  [kind |-> "exception", fenced |-> FALSE, json |-> "invalid",
   document_type |-> "<absent>", extracted_data |-> Absent]

ObjectReply(label, payload) ==
  [kind |-> "text", fenced |-> FALSE, json |-> "object",
   document_type |-> label, extracted_data |-> payload]

ExtractorTexts(rich) ==
  IF rich THEN DocTexts
  ELSE {t \in DocTexts : t.len = 0 \/ (t.len = 1 /\ ~t.blank)}

PageCounts(rich) == IF rich THEN 0..MaxPages ELSE {2}

ClassifierReplies(rich, prompt) ==
  IF rich THEN Replies(prompt)
  ELSE {ExceptionReply,
        ObjectReply("bank_statement",
                    Dict(BANK_STATEMENT_REQUIRED, TRUE, 1, NoText, NoName)),
        ObjectReply("purchase_invoice", Keys(PURCHASE_INVOICE_REQUIRED))}

DeepExtractorReplies(rich) ==
  IF rich THEN DeepReplies
  ELSE {ExceptionReply,
        ObjectReply("<absent>",
                    Dict(BANK_STATEMENT_REQUIRED, TRUE, 2, NoText, NoName))}

\* Path.mkdir(parents=True, exist_ok=True)
Mkdir(dirs, dir) == dirs \cup {SubSeq(dir, 1, k) : k \in 0..Len(dir)}

\* the outcomes of convert_to_pdf: the PDF written and its path returned;
\* None returned with nothing written; None returned with a partly written
\* file left behind; a path returned of a file that is not there
ConvertOutcomes == {"ok", "none", "none_partial", "missing"}

\* the record of lines 92-95
PlaceholderRecord(path) ==
  Dict({"file_name", "extracted_text"}, FALSE, 0,
       [who |-> "doc", len |-> 0, blank |-> TRUE], Name(path))

\* the record of lines 134-137
SimpleTextRecord(path, extracted_text) ==
  Dict({"file_name", "extracted_text"}, FALSE, 0, extracted_text, Name(path))

\* lines 127-129
BankFallback(final, initial) == IF IsEmpty(final) THEN initial ELSE final

\* DeepOrInitial that keeps the payload of the classification
DeepOrInitialKeepsInitial(deep, initial) == initial

\* lines 116-118
DeepOrInitial(deep, initial) == IF IsEmpty(deep) THEN initial ELSE deep

\* the run is at `pc` and holds the event loop
At(i, pc) == i \in Runs /\ cur = i /\ run[i].pc = pc

\* the event loop runs the first step of every task, in the order in which
\* as_completed scheduled them (the order of a set), before it hands a reply
\* to a suspended one
NoneReady == \A j \in Runs : run[j].pc # "ready"

\* lines 51-64
StartRun(i) ==
  /\ bpc \in {"gather", "direct"} /\ cur = 0
  /\ run[i].pc = "ready"
  /\ LET path == run[i].input_file_path
     IN  IF RelativeToRaises(path)
         \* relative_path is the str input_file_path.name, and .parent of a
         \* str raises AttributeError, outside of the try block
         THEN /\ run' = [run EXCEPT ![i].pc = "done", ![i].raised = TRUE,
                          ![i].term = "Raised",
                          ![i].log = @ \cup {"relative_path_error"}]
              /\ doneQ' = Append(doneQ, i)
              /\ UNCHANGED << cur, outDirs >>
         ELSE /\ outDirs' = Mkdir(outDirs, path.dir)
              /\ run' = [run EXCEPT ![i].pc = "convert",
                          ![i].output_json_path = OutputJsonPath(path)]
              /\ cur' = i
              /\ UNCHANGED doneQ
  /\ UNCHANGED << batchVars, tempFiles, outFiles, writers, gem >>

\* Convert that goes on to the page count after a failed conversion
ConvertFailureGoesOn(i) ==
  /\ At(i, "convert")
  /\ IF get_input_format(run[i].input_file_path) = "ValueError"
     THEN /\ run' = [run EXCEPT ![i].pc = "except"]
          /\ UNCHANGED tempFiles
     ELSE \E o \in ConvertOutcomes :
            /\ tempFiles' = IF o \in {"ok", "none_partial"}
                            THEN tempFiles \cup {i} ELSE tempFiles
            /\ run' = [run EXCEPT
                 ![i].pc = "pagecount",
                 ![i].log = @ \cup (CASE o = "ok" -> {}
                                      [] o = "missing" -> {"pdf_missing"}
                                      [] OTHER -> {"conversion_failed"})]
  /\ UNCHANGED << batchVars, outDirs, outFiles, writers, doneQ, cur, gem >>

\* Convert that moves the input file to the temp path instead of copying it
ConvertMovesInput(i) ==
  /\ At(i, "convert")
  /\ IF get_input_format(run[i].input_file_path) = "ValueError"
     THEN /\ run' = [run EXCEPT ![i].pc = "except"]
          /\ UNCHANGED << tempFiles, tree >>
     ELSE \E o \in ConvertOutcomes :
            /\ tempFiles' = IF o \in {"ok", "none_partial"}
                            THEN tempFiles \cup {i} ELSE tempFiles
            /\ tree' = IF o = "ok"
                       THEN {e \in tree : e.path # run[i].input_file_path}
                       ELSE tree
            /\ run' = [run EXCEPT
                 ![i].pc = IF o = "ok" THEN "pagecount" ELSE "finally",
                 ![i].term = IF o = "ok" THEN @ ELSE "SkippedError",
                 ![i].log = @ \cup (CASE o = "ok" -> {}
                                      [] o = "missing" -> {"pdf_missing"}
                                      [] OTHER -> {"conversion_failed"})]
  /\ UNCHANGED << http, inputIsDir, bpc, tasks, file_count, results, caught,
                  tempArea, outDirs, outFiles, writers, doneQ, cur, gem >>

\* lines 69-78
Convert(i) ==
  /\ At(i, "convert")
  /\ IF get_input_format(run[i].input_file_path) = "ValueError"
     THEN /\ run' = [run EXCEPT ![i].pc = "except"]
          /\ UNCHANGED tempFiles
     ELSE \E o \in ConvertOutcomes :
            /\ tempFiles' = IF o \in {"ok", "none_partial"}
                            THEN tempFiles \cup {i} ELSE tempFiles
            /\ run' = [run EXCEPT
                 ![i].pc = IF o = "ok" THEN "pagecount" ELSE "finally",
                 ![i].term = IF o = "ok" THEN @ ELSE "SkippedError",
                 ![i].log = @ \cup (CASE o = "ok" -> {}
                                      [] o = "missing" -> {"pdf_missing"}
                                      [] OTHER -> {"conversion_failed"})]
  /\ UNCHANGED << batchVars, outDirs, outFiles, writers, doneQ, cur, gem >>

\* PageCount that takes every count but 1 for several pages
PageCountZeroIsMulti(i, rich) ==
  /\ At(i, "pagecount")
  /\ \E n \in PageCounts(rich) :
       run' = [run EXCEPT ![i].pc = "extract", ![i].page_count = n,
                          ![i].is_multi_page = (n # 1)]
  /\ UNCHANGED << batchVars, tempFiles, outDirs, outFiles, writers, doneQ,
                  cur, gem >>

\* lines 82-84; get_pdf_page_count returns 0 when it cannot read the file
PageCount(i, rich) ==
  /\ At(i, "pagecount")
  /\ \E n \in PageCounts(rich) :
       run' = [run EXCEPT ![i].pc = "extract", ![i].page_count = n,
                          ![i].is_multi_page = (n > 1)]
  /\ UNCHANGED << batchVars, tempFiles, outDirs, outFiles, writers, doneQ,
                  cur, gem >>

\* open(output_json_path, 'w') and json.dump(record, indent=4)
WriteJson(i, frame, record, then, term) ==
  LET path == frame.output_json_path
  IN  /\ outFiles' = Put(outFiles, path, record)
      /\ writers' = Put(writers, path,
                        IF path \in DOMAIN writers
                        THEN writers[path] \cup {i} ELSE {i})
      /\ run' = [run EXCEPT ![i] =
                   [frame EXCEPT !.pc = then, !.term = term,
                                 !.final_json_output = record,
                                 !.wrote = Append(@, record)]]

\* lines 87-88, and lines 89-99 when the text is blank
ExtractText(i, rich) ==
  /\ At(i, "extract")
  /\ \E t \in ExtractorTexts(rich) :
       IF IsBlank(t)
       THEN WriteJson(i, [run[i] EXCEPT !.extracted_text = t],
                      PlaceholderRecord(run[i].input_file_path),
                      "finally", "SkippedEmpty")
       ELSE /\ run' = [run EXCEPT ![i].pc = "classify",
                                  ![i].extracted_text = t]
            /\ UNCHANGED << outFiles, writers >>
  /\ UNCHANGED << batchVars, tempFiles, outDirs, doneQ, cur, gem >>

\* line 102 up to the await of line 93 of gemini_utils.py
ClassifyCall(i) ==
  /\ At(i, "classify")
  /\ run' = [run EXCEPT ![i].pc = "await_llm1", ![i].ncls = @ + 1,
               ![i].prompt = ClassifyPrompt(run[i].extracted_text,
                                            run[i].is_multi_page)]
  /\ cur' = 0
  /\ UNCHANGED << batchVars, tempFiles, outDirs, outFiles, writers, doneQ,
                  gem >>

\* the reply, and lines 94-161 of gemini_utils.py
ClassifyReturn(i, rich) ==
  /\ i \in Runs /\ cur = 0 /\ run[i].pc = "await_llm1" /\ NoneReady
  /\ \E reply \in ClassifierReplies(rich, run[i].prompt) :
       LET r == classify_and_extract_with_gemini(
                  run[i].extracted_text, run[i].is_multi_page, reply)
       IN  run' = [run EXCEPT ![i].pc = "prepare",
                              ![i].doc_type = r.doc_type,
                              ![i].initial_extracted_data = r.data,
                              ![i].reply_label = reply.document_type]
  /\ cur' = i
  /\ UNCHANGED << batchVars, tempFiles, outDirs, outFiles, writers, doneQ,
                  gem >>

\* Prepare that sends every bank statement to the specialized extraction,
\* whatever its page count
PrepareIgnoresPages(i) ==
  /\ At(i, "prepare")
  /\ LET r == run[i]
     IN  run' =
           CASE r.doc_type = "bank_statement" ->
                  [run EXCEPT ![i].pc = "bank_extract"]
             [] r.doc_type = "simple_text" ->
                  [run EXCEPT ![i].pc = "emit",
                     ![i].final_json_output =
                        SimpleTextRecord(r.input_file_path, r.extracted_text)]
             [] OTHER ->
                  [run EXCEPT ![i].pc = "emit",
                              ![i].final_json_output = EmptyDict]
  /\ UNCHANGED << batchVars, tempFiles, outDirs, outFiles, writers, doneQ,
                  cur, gem >>

\* lines 105-109 and 122-143
Prepare(i) ==
  /\ At(i, "prepare")
  /\ LET r == run[i]
     IN  run' =
           CASE r.doc_type = "bank_statement" /\ r.is_multi_page ->
                  [run EXCEPT ![i].pc = "bank_extract"]
             [] r.doc_type = "bank_statement" /\ ~r.is_multi_page ->
                  [run EXCEPT ![i].pc = "emit",
                     ![i].final_json_output =
                        BankFallback(r.initial_extracted_data,
                                     r.initial_extracted_data)]
             [] r.doc_type = "simple_text" ->
                  [run EXCEPT ![i].pc = "emit",
                     ![i].final_json_output =
                        SimpleTextRecord(r.input_file_path, r.extracted_text)]
             [] OTHER ->
                  [run EXCEPT ![i].pc = "emit",
                              ![i].final_json_output = EmptyDict]
  /\ UNCHANGED << batchVars, tempFiles, outDirs, outFiles, writers, doneQ,
                  cur, gem >>

\* lines 110-113 and 119-121, up to the await of line 196 of gemini_utils.py
BankExtract(i, rich) ==
  /\ At(i, "bank_extract")
  /\ \E t \in ExtractorTexts(rich) :
       IF ~IsBlank(t)
       THEN /\ run' = [run EXCEPT ![i].pc = "await_llm2",
                                  ![i].full_bank_text = t,
                                  ![i].ndeep = @ + 1]
            /\ cur' = 0
       ELSE /\ run' = [run EXCEPT ![i].pc = "emit",
                         ![i].full_bank_text = t,
                         ![i].log = @ \cup {"bank_text_failed"},
                         ![i].final_json_output =
                            BankFallback(run[i].initial_extracted_data,
                                         run[i].initial_extracted_data)]
            /\ UNCHANGED cur
  /\ UNCHANGED << batchVars, tempFiles, outDirs, outFiles, writers, doneQ,
                  gem >>

\* DeepReturn without the fallbacks of lines 116-118 and 127-129
DeepReturnKeepsEmpty(i, rich) ==
  /\ i \in Runs /\ cur = 0 /\ run[i].pc = "await_llm2" /\ NoneReady
  /\ \E reply \in DeepExtractorReplies(rich) :
       LET d == extract_full_bank_statement_with_gemini(
                  run[i].full_bank_text, reply)
       IN  run' = [run EXCEPT ![i].pc = "emit", ![i].deep_result = d,
                     ![i].final_json_output = d]
  /\ cur' = i
  /\ UNCHANGED << batchVars, tempFiles, outDirs, outFiles, writers, doneQ,
                  gem >>

\* the reply, lines 197-215 of gemini_utils.py and lines 115-118, 127-129
DeepReturn(i, rich) ==
  /\ i \in Runs /\ cur = 0 /\ run[i].pc = "await_llm2" /\ NoneReady
  /\ \E reply \in DeepExtractorReplies(rich) :
       LET d == extract_full_bank_statement_with_gemini(
                  run[i].full_bank_text, reply)
       IN  run' = [run EXCEPT ![i].pc = "emit", ![i].deep_result = d,
                     ![i].log = @ \cup (IF IsEmpty(d) THEN {"deep_failed"}
                                        ELSE {}),
                     ![i].final_json_output =
                        BankFallback(
                          DeepOrInitial(d, run[i].initial_extracted_data),
                          run[i].initial_extracted_data)]
  /\ cur' = i
  /\ UNCHANGED << batchVars, tempFiles, outDirs, outFiles, writers, doneQ,
                  gem >>

\* lines 146-151
Emit(i) ==
  /\ At(i, "emit")
  /\ IF ~IsEmpty(run[i].final_json_output)
     THEN WriteJson(i, run[i], run[i].final_json_output, "finally", "Saved")
     ELSE /\ run' = [run EXCEPT ![i].pc = "finally",
                                ![i].term = "SkippedError",
                                ![i].log = @ \cup {"no_final_json"}]
          /\ UNCHANGED << outFiles, writers >>
  /\ UNCHANGED << batchVars, tempFiles, outDirs, doneQ, cur, gem >>

\* Except that leaves the coroutine without the finally block
ExceptSkipsFinally(i) ==
  /\ At(i, "except")
  /\ run' = [run EXCEPT ![i].pc = "done", ![i].term = "SkippedError",
                        ![i].log = @ \cup {"unhandled_error"}]
  /\ doneQ' = Append(doneQ, i)
  /\ cur' = 0
  /\ UNCHANGED << batchVars, tempFiles, outDirs, outFiles, writers, gem >>

\* lines 154-155
Except(i) ==
  /\ At(i, "except")
  /\ run' = [run EXCEPT ![i].pc = "finally", ![i].term = "SkippedError",
                        ![i].log = @ \cup {"unhandled_error"}]
  /\ UNCHANGED << batchVars, tempFiles, outDirs, outFiles, writers, doneQ,
                  cur, gem >>

\* lines 156-164, and the return of the coroutine
Finally(i) ==
  /\ At(i, "finally")
  /\ IF i \in tempFiles
     THEN \E ok \in BOOLEAN :
            /\ tempFiles' = IF ok THEN tempFiles \ {i} ELSE tempFiles
            /\ run' = [run EXCEPT ![i].pc = "done",
                         ![i].unlinkFailed = ~ok,
                         ![i].log = @ \cup (IF ok THEN {}
                                            ELSE {"unlink_warning"})]
     ELSE /\ run' = [run EXCEPT ![i].pc = "done"]
          /\ UNCHANGED tempFiles
  /\ doneQ' = Append(doneQ, i)
  /\ cur' = 0
  /\ UNCHANGED << batchVars, outDirs, outFiles, writers, gem >>

(***************************************************************************)
(* processing.py: process_folder_recursive.                                *)
(***************************************************************************)
\* CheckInputFolder without the test of line 175
CheckInputFolderNoTest ==
  /\ bpc = "start"
  /\ bpc' = "setup"
  /\ UNCHANGED << http, inputIsDir, tree, tasks, file_count, results, caught,
                  tempArea, tempFiles, outDirs, outFiles, writers, run, doneQ,
                  cur, gem >>

\* lines 172-177
CheckInputFolder ==
  /\ bpc = "start"
  /\ bpc' = IF inputIsDir THEN "setup" ELSE "ValueError"
  /\ UNCHANGED << http, inputIsDir, tree, tasks, file_count, results, caught,
                  tempArea, tempFiles, outDirs, outFiles, writers, run, doneQ,
                  cur, gem >>

\* lines 179-184
Setup ==
  /\ bpc = "setup"
  /\ outDirs' = Mkdir(outDirs, <<>>)
  /\ tempArea' = "allocated"
  /\ bpc' = "enumerate"
  /\ UNCHANGED << http, inputIsDir, tree, tasks, file_count, results, caught,
                  tempFiles, outFiles, writers, run, doneQ, cur, gem >>

\* the entries of line 189 that pass the test of line 190, in rglob order
Supported(t) ==
  SelectSeq(UniverseSeq, LAMBDA e : e \in t /\ IsSupported(e, t))

\* lines 186-206: one task per supported file, given its resolved path; the
\* temporary directory is left at once when there is none
Enumerate ==
  /\ bpc = "enumerate"
  /\ LET found == Supported(tree)
     IN  /\ tasks' = [k \in 1..Len(found) |-> found[k].target]
         /\ file_count' = Len(found)
         /\ run' = [k \in 1..Len(found) |-> NewRun(found[k].target)]
         /\ bpc' = IF Len(found) = 0 THEN "returned" ELSE "gather"
         /\ tempArea' = IF Len(found) = 0 THEN "disposed" ELSE tempArea
  /\ UNCHANGED << http, inputIsDir, tree, results, caught, tempFiles, outDirs,
                  outFiles, writers, doneQ, cur, gem >>

\* a task that was awaited: its frame is gone, its outcome is kept
Collected(r) ==
  [NewRun(r.input_file_path) EXCEPT !.pc = "collected", !.term = r.term,
                                    !.raised = r.raised]

\* Collect that counts a task as completed only when its run wrote a record
CollectCountsWritten ==
  /\ bpc = "gather" /\ cur = 0 /\ doneQ # <<>>
  /\ LET i == Head(doneQ)
         counted == run[i].term \in {"Saved", "SkippedEmpty"}
     IN  /\ results' = IF counted THEN results + 1 ELSE results
         /\ caught' = IF counted THEN caught ELSE caught + 1
         /\ run' = [run EXCEPT ![i] = Collected(run[i])]
  /\ doneQ' = Tail(doneQ)
  /\ UNCHANGED << http, inputIsDir, tree, bpc, tasks, file_count, tempArea,
                  tempFiles, outDirs, outFiles, writers, cur, gem >>

\* Collect without the except clause of line 219: the exception of the task
\* leaves process_folder_recursive
CollectReraises ==
  /\ bpc = "gather" /\ cur = 0 /\ doneQ # <<>>
  /\ LET i == Head(doneQ)
     IN  /\ results' = IF run[i].raised THEN results ELSE results + 1
         /\ bpc' = IF run[i].raised THEN "raised" ELSE bpc
         /\ run' = [run EXCEPT ![i] = Collected(run[i])]
  /\ doneQ' = Tail(doneQ)
  /\ UNCHANGED << http, inputIsDir, tree, tasks, file_count, caught, tempArea,
                  tempFiles, outDirs, outFiles, writers, cur, gem >>

\* lines 214-221: the next finished task is awaited; its result is appended
\* or its exception is caught and logged
Collect ==
  /\ bpc = "gather" /\ cur = 0 /\ doneQ # <<>>
  /\ LET i == Head(doneQ)
     IN  /\ results' = IF run[i].raised THEN results ELSE results + 1
         /\ caught' = IF run[i].raised THEN caught + 1 ELSE caught
         /\ run' = [run EXCEPT ![i] = Collected(run[i])]
  /\ doneQ' = Tail(doneQ)
  /\ UNCHANGED << http, inputIsDir, tree, bpc, tasks, file_count, tempArea,
                  tempFiles, outDirs, outFiles, writers, cur, gem >>

\* Finish that leaves the temporary directory behind
FinishKeepsTempArea ==
  /\ bpc = "gather"
  /\ results + caught = Len(tasks)
  /\ bpc' = "returned"
  /\ UNCHANGED << http, inputIsDir, tree, tasks, file_count, results, caught,
                  tempArea, tempFiles, outDirs, outFiles, writers, run,
                  doneQ, cur, gem >>

\* Finish that does not wait for the tasks
FinishEarly ==
  /\ bpc = "gather"
  /\ bpc' = "returned"
  /\ tempArea' = "disposed"
  /\ tempFiles' = {}
  /\ UNCHANGED << http, inputIsDir, tree, tasks, file_count, results, caught,
                  outDirs, outFiles, writers, run, doneQ, cur, gem >>

\* lines 223-226: every task was awaited; the temporary directory is left
Finish ==
  /\ bpc = "gather"
  /\ results + caught = Len(tasks)
  /\ bpc' = "returned"
  /\ tempArea' = "disposed"
  /\ tempFiles' = {}
  /\ UNCHANGED << http, inputIsDir, tree, tasks, file_count, results, caught,
                  outDirs, outFiles, writers, run, doneQ, cur, gem >>

(***************************************************************************)
(* Fault injection: a stage of process_single_document raises.             *)
(***************************************************************************)
\* the stages inside the try block at which a run that holds the event loop
\* can be made to raise: the conversion, the page count, the primary
\* extraction (or the write of the placeholder), the classification before
\* its await, the specialized extraction, the write of the output
FaultStages ==
  {"convert", "pagecount", "extract", "classify", "bank_extract", "emit"}

\* the stages that write to the file system: they raise OSError when the
\* write fails
IoFaultStages == {"convert", "extract", "emit"}

\* a stage raises inside the try block of lines 66-152: control goes to the
\* handler of line 154; a conversion that raises may leave its file behind
Fault(i, stages) ==
  /\ i \in Runs /\ cur = i /\ run[i].pc \in stages
  /\ run' = [run EXCEPT ![i].pc = "except", ![i].fault = run[i].pc]
  /\ \E left \in BOOLEAN :
       tempFiles' = IF left /\ run[i].pc = "convert"
                    THEN tempFiles \cup {i} ELSE tempFiles
  /\ UNCHANGED << batchVars, outDirs, outFiles, writers, doneQ, cur, gem >>

\* the awaited call of the classifier or of the deep extractor raises
FaultOnReply(i) ==
  /\ i \in Runs /\ cur = 0 /\ NoneReady
  /\ run[i].pc \in {"await_llm1", "await_llm2"}
  /\ run' = [run EXCEPT ![i].pc = "except", ![i].fault = run[i].pc]
  /\ cur' = i
  /\ UNCHANGED << batchVars, tempFiles, outDirs, outFiles, writers, doneQ,
                  gem >>

\* output_subfolder.mkdir of line 61 raises, before the try block: the
\* exception leaves process_single_document
FaultBeforeTry(i) ==
  /\ bpc \in {"gather", "direct"} /\ cur = 0
  /\ i \in Runs /\ run[i].pc = "ready"
  /\ run' = [run EXCEPT ![i].pc = "done", ![i].raised = TRUE,
                        ![i].term = "Raised", ![i].fault = "ready"]
  /\ doneQ' = Append(doneQ, i)
  /\ UNCHANGED << batchVars, tempFiles, outDirs, outFiles, writers, cur,
                  gem >>

\* a batch: process_folder_recursive and the runs it creates
Next ==
  \/ CheckInputFolder
  \/ Setup
  \/ Enumerate
  \/ Collect
  \/ Finish
  \/ \E i \in Runs : StartRun(i)
  \/ \E i \in Runs : Convert(i)
  \/ \E i \in Runs : PageCount(i, FALSE)
  \/ \E i \in Runs : ExtractText(i, FALSE)
  \/ \E i \in Runs : ClassifyCall(i)
  \/ \E i \in Runs : ClassifyReturn(i, FALSE)
  \/ \E i \in Runs : Prepare(i)
  \/ \E i \in Runs : BankExtract(i, FALSE)
  \/ \E i \in Runs : DeepReturn(i, FALSE)
  \/ \E i \in Runs : Emit(i)
  \/ \E i \in Runs : Except(i)
  \/ \E i \in Runs : Finally(i)
  \/ \E i \in Runs : Fault(i, IoFaultStages)
  \/ \E i \in Runs : FaultBeforeTry(i)

Spec == Init /\ [][Next]_vars

(***************************************************************************)
(* One run of process_single_document, called on any file.                 *)
(***************************************************************************)
DirectPaths ==
  {FileAt("in", <<>>, "c", ".pdf"), FileAt("in", <<>>, "c", ".PNG"),
   FileAt("in", <<"a">>, "c", ".docx"), FileAt("in", <<"a", "b">>, "c", ".pdf"),
   FileAt("in", <<>>, "n", ".txt"),
   FileAt("ext", <<>>, "o", ".pdf")}

InitDoc ==
  /\ inputIsDir = TRUE
  /\ tree = {}
  /\ bpc = "direct"
  /\ \E path \in DirectPaths :
       /\ tasks = << path >>
       /\ run = << NewRun(path) >>
  /\ file_count = 0
  /\ results = 0
  /\ caught = 0
  /\ tempArea = "allocated"
  /\ tempFiles = {}
  /\ outDirs = {<<>>}
  /\ outFiles = NoFiles
  /\ writers = NoWriters
  /\ doneQ = <<>>
  /\ cur = 0
  /\ gem = NoGem
  /\ http = NoHttp

NextDoc ==
  \/ \E i \in Runs : StartRun(i)
  \/ \E i \in Runs : Convert(i)
  \/ \E i \in Runs : PageCount(i, TRUE)
  \/ \E i \in Runs : ExtractText(i, TRUE)
  \/ \E i \in Runs : ClassifyCall(i)
  \/ \E i \in Runs : ClassifyReturn(i, TRUE)
  \/ \E i \in Runs : Prepare(i)
  \/ \E i \in Runs : BankExtract(i, TRUE)
  \/ \E i \in Runs : DeepReturn(i, TRUE)
  \/ \E i \in Runs : Emit(i)
  \/ \E i \in Runs : Except(i)
  \/ \E i \in Runs : Finally(i)

SpecDoc == InitDoc /\ [][NextDoc]_vars

\* one run, with a fault at any stage
NextDocFault ==
  \/ NextDoc
  \/ \E i \in Runs : Fault(i, FaultStages)
  \/ \E i \in Runs : FaultOnReply(i)
  \/ \E i \in Runs : FaultBeforeTry(i)

SpecDocFault == InitDoc /\ [][NextDocFault]_vars

(***************************************************************************)
(* classify_and_extract_with_gemini on its own, on every reply.            *)
(***************************************************************************)
InitClassify ==
  /\ inputIsDir = TRUE
  /\ tree = {}
  /\ bpc = "off"
  /\ tasks = <<>>
  /\ run = <<>>
  /\ file_count = 0
  /\ results = 0
  /\ caught = 0
  /\ tempArea = "none"
  /\ tempFiles = {}
  /\ outDirs = {}
  /\ outFiles = NoFiles
  /\ writers = NoWriters
  /\ doneQ = <<>>
  /\ cur = 0
  /\ http = NoHttp
  /\ \E content \in {t \in DocTexts : ~IsBlank(t)}, multi \in BOOLEAN :
       \E reply \in Replies(ClassifyPrompt(content, multi)) :
         gem = [pc |-> "called", content |-> content, is_multi_page |-> multi,
                reply |-> reply, doc_type |-> "", data |-> EmptyDict]

\* the call returns
GeminiReturn ==
  /\ gem.pc = "called"
  /\ LET r == classify_and_extract_with_gemini(gem.content, gem.is_multi_page,
                                               gem.reply)
     IN  gem' = [gem EXCEPT !.pc = "returned", !.doc_type = r.doc_type,
                            !.data = r.data]
  /\ UNCHANGED << batchVars, tempFiles, outDirs, outFiles, writers, run,
                  doneQ, cur >>

SpecClassify == InitClassify /\ [][GeminiReturn]_vars

(***************************************************************************)
(* main.py: process_folder_endpoint, the handler of POST /process-folder/. *)
(***************************************************************************)
\* the files of the folder a request names
MaxRequestFiles == 1

\* what the f-strings of main.py:91 and processing.py:177 put in the message
FolderDetail == "Input folder does not exist or is not a directory: <folder>"

\* a request arrives; process_folder_recursive has not been called
InitEndpoint ==
  /\ inputIsDir \in BOOLEAN
  /\ tree \in {t \in SUBSET Universe : Cardinality(t) <= MaxRequestFiles}
  /\ inputIsDir = FALSE => tree = {}
  /\ bpc = "idle"
  /\ tasks = <<>>
  /\ file_count = 0
  /\ results = 0
  /\ caught = 0
  /\ tempArea = "none"
  /\ tempFiles = {}
  /\ outDirs = {}
  /\ outFiles = NoFiles
  /\ writers = NoWriters
  /\ run = <<>>
  /\ doneQ = <<>>
  /\ cur = 0
  /\ gem = NoGem
  /\ http = [NoHttp EXCEPT !.pc = "received"]

\* lines 84-94: the test of the folder, inside the try; the HTTPException of
\* line 91 is raised inside the try and goes to its except clauses
EndpointCheck ==
  /\ http.pc = "received"
  /\ IF inputIsDir
       THEN /\ http' = [http EXCEPT !.pc = "calling"]
            /\ bpc' = "start"
       ELSE /\ http' = [http EXCEPT !.pc = "except_http",
                                    !.cause = "not_a_directory"]
            /\ bpc' = bpc
  /\ UNCHANGED << inputIsDir, tree, tasks, file_count, results, caught,
                  tempArea, tempFiles, outDirs, outFiles, writers, run, doneQ,
                  cur, gem >>

\* EndpointExceptHttp as the comment of line 108 describes it
EndpointExceptHttpReraises ==
  /\ http.pc = "except_http"
  /\ http' = [http EXCEPT !.pc = "done", !.leaves = "HTTPException",
                          !.status = 400, !.detail = FolderDetail]
  /\ UNCHANGED << inputIsDir, tree, bpc, tasks, file_count, results, caught,
                  tempArea, tempFiles, outDirs, outFiles, writers, run, doneQ,
                  cur, gem >>

\* lines 107-109: the clause builds a new HTTPException from the name e, which
\* is bound nowhere in the function or the module: NameError leaves the handler
EndpointExceptHttp ==
  /\ http.pc = "except_http"
  /\ http' = [http EXCEPT !.pc = "done", !.leaves = "NameError"]
  /\ UNCHANGED << inputIsDir, tree, bpc, tasks, file_count, results, caught,
                  tempArea, tempFiles, outDirs, outFiles, writers, run, doneQ,
                  cur, gem >>

\* the folder goes away after the test of line 89 and before the one of
\* processing.py:175
FolderRemoved ==
  /\ http.pc = "calling"
  /\ bpc = "start"
  /\ inputIsDir
  /\ inputIsDir' = FALSE
  /\ tree' = {}
  /\ UNCHANGED << http, bpc, tasks, file_count, results, caught, tempArea,
                  tempFiles, outDirs, outFiles, writers, run, doneQ, cur,
                  gem >>

\* lines 103-106: the ValueError of process_folder_recursive becomes a 400
EndpointValueError ==
  /\ http.pc = "calling"
  /\ bpc = "ValueError"
  /\ http' = [http EXCEPT !.pc = "done", !.cause = "ValueError",
                          !.leaves = "HTTPException", !.status = 400,
                          !.detail = FolderDetail]
  /\ UNCHANGED << inputIsDir, tree, bpc, tasks, file_count, results, caught,
                  tempArea, tempFiles, outDirs, outFiles, writers, run, doneQ,
                  cur, gem >>

\* lines 94-101: process_folder_recursive returned; the answer is the message
EndpointReturn ==
  /\ http.pc = "calling"
  /\ bpc = "returned"
  /\ http' = [http EXCEPT !.pc = "done", !.status = 200,
                          !.detail = "Processing completed"]
  /\ UNCHANGED << inputIsDir, tree, bpc, tasks, file_count, results, caught,
                  tempArea, tempFiles, outDirs, outFiles, writers, run, doneQ,
                  cur, gem >>

NextEndpoint ==
  \/ EndpointCheck
  \/ EndpointExceptHttp
  \/ FolderRemoved
  \/ EndpointValueError
  \/ EndpointReturn
  \/ Next

SpecEndpoint == InitEndpoint /\ [][NextEndpoint]_vars

(***************************************************************************)
(* Claims about classify_and_extract_with_gemini (SpecClassify).           *)
(***************************************************************************)
\* the reply is a JSON object whose document_type is a string
GemIsObject ==
  /\ gem.reply.kind = "text" /\ gem.reply.json = "object"
  /\ gem.reply.document_type \notin {"<absent>", "<nonstring>"}

\* the label the reply names, in lower case
GemNamed == Lower(gem.reply.document_type)

\* the extracted_data of the reply ({} when the key is missing)
GemPayload == Get(gem.reply.extracted_data, EmptyDict)

\* the payload lacks at least one field of the required-field set of `label`
GemLacks(label) ==
  ~IsDict(GemPayload) \/ \E f \in Required(label) : f \notin GemPayload.keys

\* the call returned ("simple_text", {"extracted_text": <the full content>})
GemFellBack ==
  gem.doc_type = "simple_text" /\ gem.data = TextDict(gem.content)

\* the call returned the label of the reply with the payload of the reply
GemKept == gem.doc_type = GemNamed /\ gem.data = GemPayload

\* C1, as claimed: for every label L of the seven document kinds, a reply
\* that names L with a payload lacking a field of L's required-field set
\* yields ("simple_text", {text: the full original text}).
C1_AnyLabelFallsBack ==
  (gem.pc = "returned" /\ GemIsObject /\ GemNamed \in DocumentKinds
     /\ GemLacks(GemNamed))
  => GemFellBack

\* C1, amended: a reply that names one of the five schema-validated labels
\* with a payload lacking a required field yields the simple_text fallback
\* with the full original text, never that label; a reply that names
\* bank_statement falls back exactly when the payload is no mapping or its
\* transactions are no list, and is returned as it is otherwise, whatever
\* other required fields it lacks; a reply that names simple_text keeps the
\* label simple_text and gets the full original text as payload exactly when
\* the payload is no mapping or has no extracted_text key.
C1_FallbackOnMissingField ==
  (gem.pc = "returned" /\ GemIsObject) =>
    /\ (GemNamed \in SchemaKinds /\ GemLacks(GemNamed)) => GemFellBack
    /\ GemNamed = "bank_statement" =>
         IF IsDict(GemPayload) /\ "transactions" \in GemPayload.keys
            /\ GemPayload.txIsList
         THEN GemKept ELSE GemFellBack
    /\ GemNamed = "simple_text" =>
         IF IsDict(GemPayload) /\ "extracted_text" \in GemPayload.keys
         THEN GemKept ELSE GemFellBack

\* C1, witness: a challan reply without its challan_date came back as the
\* simple_text fallback
C1_Witness ==
  /\ gem.pc = "returned" /\ GemIsObject /\ GemNamed = "challan"
  /\ IsDict(GemPayload)
  /\ GemPayload.keys = CHALLAN_REQUIRED \ {"challan_date"}
  /\ GemFellBack

(***************************************************************************)
(* Claims about one run of process_single_document (SpecDoc).              *)
(***************************************************************************)
\* the run went through the classification of step 4
Classified(i) == run[i].ncls > 0 /\ run[i].doc_type # ""

\* the output file of the run holds `record`
Holds(i, record) ==
  /\ run[i].output_json_path \in DOMAIN outFiles
  /\ outFiles[run[i].output_json_path] = record

\* C2, as claimed: a run whose conversion succeeded, whose primary text is
\* not blank and whose classification returned one of the seven labels with
\* a non-empty validated payload ends with a non-empty final payload that is
\* written as the output record.
C2_EveryLabelIsWritten ==
  \A i \in Runs :
    (run[i].pc = "done" /\ Classified(i)
       /\ run[i].doc_type \in DocumentKinds
       /\ ~IsEmpty(run[i].initial_extracted_data))
    => /\ ~IsEmpty(run[i].final_json_output)
       /\ run[i].wrote = << run[i].final_json_output >>
       /\ Holds(i, run[i].final_json_output)

\* C3, as claimed: the deep extractor is invoked in every run classified
\* bank_statement with a page count above 1, and in no other run.
C3_DeepIffMultiPageBank ==
  \A i \in Runs :
    /\ run[i].ndeep > 0 =>
         run[i].doc_type = "bank_statement" /\ run[i].page_count > 1
    /\ (run[i].pc = "done" /\ run[i].doc_type = "bank_statement"
          /\ run[i].page_count > 1)
       => run[i].ndeep > 0

\* C3, amended: the deep extractor is invoked, once, exactly in the runs
\* classified bank_statement with a page count above 1 whose specialized
\* extraction returned a text that is not blank; it is never invoked with a
\* page count of at most 1 nor under another label.
C3_DeepIffMultiPageBankWithText ==
  \A i \in Runs :
    /\ run[i].ndeep <= 1
    /\ run[i].ndeep > 0 =>
         /\ run[i].doc_type = "bank_statement" /\ run[i].page_count > 1
         /\ run[i].full_bank_text.len > 0 /\ ~run[i].full_bank_text.blank
    /\ (run[i].pc = "done" /\ run[i].doc_type = "bank_statement"
          /\ run[i].page_count > 1
          /\ run[i].full_bank_text.len > 0 /\ ~run[i].full_bank_text.blank)
       => run[i].ndeep = 1

\* C3, witness: a finished run classified bank_statement, of two pages, that
\* invoked the deep extractor
C3_Witness ==
  \E i \in Runs :
    /\ run[i].pc = "done" /\ run[i].doc_type = "bank_statement"
    /\ run[i].page_count = 2 /\ run[i].ndeep = 1

\* a payload that follows the bank statement schema
ValidBankPayload(d) ==
  /\ d.shape = "dict" /\ BANK_STATEMENT_REQUIRED \subseteq d.keys
  /\ d.txIsList

\* the run is finished, was classified bank_statement and has several pages
MultiPageBankDone(i) ==
  /\ run[i].pc = "done" /\ Classified(i)
  /\ run[i].doc_type = "bank_statement" /\ run[i].page_count > 1

\* the record written is the payload of the step-4 classification
WroteInitial(i) ==
  /\ run[i].term = "Saved"
  /\ run[i].wrote = << run[i].initial_extracted_data >>
  /\ Holds(i, run[i].initial_extracted_data)

\* C4, as claimed: in a multi-page bank statement run, a blank specialized
\* text, an empty deep result or a deep result that is no valid bank
\* statement payload all end with the step-4 payload written.
C4_InvalidDeepFallsBack ==
  \A i \in Runs :
    (MultiPageBankDone(i)
       /\ \/ run[i].ndeep = 0
          \/ run[i].deep_result.keys = {}
          \/ ~ValidBankPayload(run[i].deep_result))
    => WroteInitial(i)

\* C4, amended: in a multi-page bank statement run, a blank specialized text
\* or an empty deep result (the call raised, the reply was no JSON or no
\* JSON object, or it was the empty object) ends with the step-4 payload
\* written as the record; the run ends Saved.  A non-empty object is written
\* as it is, valid bank statement payload or not.
C4_EmptyDeepFallsBack ==
  \A i \in Runs :
    (MultiPageBankDone(i)
       /\ (run[i].ndeep = 0 \/ run[i].deep_result.keys = {}))
    => WroteInitial(i)

\* C4, witness: the deep extractor was called, came back empty, and the
\* step-4 payload was written
C4_Witness ==
  \E i \in Runs :
    /\ MultiPageBankDone(i) /\ run[i].ndeep = 1
    /\ run[i].deep_result.keys = {} /\ WroteInitial(i)

\* C5: in a multi-page bank statement run whose specialized extraction
\* returned a text that is not blank and whose deep extraction returned a
\* non-empty payload, the record written is the deep payload, not the step-4
\* payload.
C5_DeepPayloadIsWritten ==
  \A i \in Runs :
    (MultiPageBankDone(i) /\ run[i].ndeep = 1
       /\ run[i].deep_result.keys # {})
    => /\ run[i].term = "Saved"
       /\ run[i].wrote = << run[i].deep_result >>
       /\ Holds(i, run[i].deep_result)

\* C5, witness: a deep payload of two transactions was written where the
\* step-4 payload had one
C5_Witness ==
  \E i \in Runs :
    /\ MultiPageBankDone(i) /\ run[i].ndeep = 1
    /\ run[i].deep_result.ntx = 2 /\ run[i].initial_extracted_data.ntx = 1
    /\ Holds(i, run[i].deep_result)
    /\ ~Holds(i, run[i].initial_extracted_data)

\* the primary extraction of the run returned an empty or whitespace text
BlankExtraction(i) ==
  /\ run[i].extracted_text.who = "doc"
  /\ (run[i].extracted_text.len = 0 \/ run[i].extracted_text.blank)

\* {"file_name": <name of the source file>, "extracted_text": ""}
MinimalRecord(i) ==
  [shape |-> "dict", keys |-> {"file_name", "extracted_text"},
   txIsList |-> FALSE, ntx |-> 0,
   text |-> [who |-> "doc", len |-> 0, blank |-> TRUE],
   file_name |-> [stem |-> run[i].input_file_path.stem,
                  ext |-> run[i].input_file_path.ext]]

\* C6: when the primary extraction returns an empty or whitespace-only text
\* the run writes exactly {file_name, extracted_text: ""} and ends without a
\* call of the classifier or of the deep extractor.
C6_BlankTextWritesPlaceholder ==
  \A i \in Runs :
    BlankExtraction(i) =>
      /\ run[i].ncls = 0 /\ run[i].ndeep = 0
      /\ run[i].wrote = << MinimalRecord(i) >>
      /\ Holds(i, MinimalRecord(i))
      /\ run[i].pc \in {"finally", "done"}

\* C6, witness: a whitespace-only text ended in the placeholder record
C6_Witness ==
  \E i \in Runs :
    /\ run[i].pc = "done" /\ run[i].extracted_text.who = "doc"
    /\ run[i].extracted_text.len = 1 /\ run[i].extracted_text.blank
    /\ run[i].wrote = << MinimalRecord(i) >> /\ run[i].ncls = 0

(***************************************************************************)
(* Claims about one run with faults (SpecDocFault).                        *)
(***************************************************************************)
\* the intermediate PDF of the run is in the temporary directory
TempExists(i) == i \in tempFiles

\* C7, as claimed: whatever stage raised, and on the success, the
\* degraded-empty and the conversion-failure exits, the temp artifact of a
\* finished run does not exist.
C7_TempAbsentWhenDone ==
  \A i \in Runs : run[i].pc = "done" => ~TempExists(i)

\* C7, amended: the temp artifact of a finished run does not exist, whatever
\* stage raised and on every exit, unless its deletion itself failed with an
\* OSError; the failed deletion is logged as a warning and the run ends as it
\* would have ended.
C7_TempAbsentUnlessUnlinkFails ==
  \A i \in Runs :
    run[i].pc = "done" =>
      /\ TempExists(i) <=> run[i].unlinkFailed
      /\ run[i].unlinkFailed => "unlink_warning" \in run[i].log

\* C7, witness: the write of the output raised, after the conversion had
\* made the intermediate PDF, and the PDF is gone when the run is finished
C7_Witness ==
  \E i \in Runs :
    /\ run[i].pc = "done" /\ run[i].fault = "emit"
    /\ run[i].term = "SkippedError" /\ ~TempExists(i)

(***************************************************************************)
(* Claims about a batch (Spec).                                            *)
(***************************************************************************)
\* the ways a run of process_single_document ends
TerminalStates == {"Saved", "SkippedEmpty", "SkippedError", "Raised"}

\* run i wrote the output file derived from its input path
WroteOwnRecord(i) ==
  /\ OutputJsonPath(tasks[i]) \in DOMAIN writers
  /\ i \in writers[OutputJsonPath(tasks[i])]

\* C8: an exception raised in one document of a batch, before its first
\* stage or at any later one, stays in that document: the batch never stops
\* while a task is unfinished, process_folder_recursive raises only for an
\* input folder that is no directory, and when it returns every task was
\* awaited, every run has its terminal state and every run that ended Saved
\* or SkippedEmpty wrote its own record.
C8_ExceptionsStayInTheirRun ==
  /\ bpc \in {"start", "setup", "enumerate", "gather", "returned",
              "ValueError"}
  /\ bpc = "ValueError" => ~inputIsDir
  /\ bpc = "gather" => ENABLED Next
  /\ bpc = "returned" =>
       /\ results + caught = Len(tasks)
       /\ \A i \in Runs :
            /\ run[i].pc = "collected"
            /\ run[i].term \in TerminalStates
            /\ run[i].raised <=> run[i].term = "Raised"
            /\ run[i].term \in {"Saved", "SkippedEmpty"} => WroteOwnRecord(i)

\* C8, witness: the batch returned; one document raised out of
\* process_single_document and another one was saved
C8_Witness ==
  /\ bpc = "returned" /\ caught = 1 /\ results = 1
  /\ \E i, j \in Runs :
       /\ i # j /\ run[i].raised /\ run[i].term = "Raised"
       /\ run[j].term = "Saved" /\ WroteOwnRecord(j)

\* run i is inside the pipeline
Active(i) == run[i].pc \notin {"ready", "done", "collected"}

\* C9, as claimed: no canonical path is given to two pipeline runs of the
\* same batch, and at most one run for a canonical path is active at a time.
C9_OneRunPerCanonicalPath ==
  \A i, j \in Runs :
    i # j =>
      /\ tasks[i] # tasks[j]
      /\ ~(tasks[i] = tasks[j] /\ Active(i) /\ Active(j))

\* C10, as claimed: two distinct input files of a batch never derive the
\* same output path, so every output file is written by the runs of at most
\* one input file.
C10_OutputPathsDistinct ==
  \A p \in DOMAIN writers :
    \A i, j \in writers[p] : tasks[i] = tasks[j]

(***************************************************************************)
(* Claims about the output path (SpecDoc).                                 *)
(***************************************************************************)
\* the run was given a file below the input folder
UnderInputRoot(i) == run[i].input_file_path.root = "in"

\* the path below the output folder with the directories and the stem of the
\* input path of the run, and the extension .json
MirroredPath(i) ==
  [root |-> "out", dir |-> run[i].input_file_path.dir,
   stem |-> run[i].input_file_path.stem, ext |-> ".json"]

\* C11: a run on the file I/d1/.../dk/name.ext writes its record to
\* O/d1/.../dk/name.json and to no other file; the directories O/d1/.../dj
\* exist from its first step on.
C11_OutputMirrorsInputTree ==
  \A i \in Runs :
    (UnderInputRoot(i) /\ run[i].pc # "ready") =>
      /\ \A k \in 0..Len(run[i].input_file_path.dir) :
           SubSeq(run[i].input_file_path.dir, 1, k) \in outDirs
      /\ \A p \in DOMAIN writers : i \in writers[p] => p = MirroredPath(i)
      /\ run[i].wrote # <<>> =>
           /\ MirroredPath(i) \in DOMAIN outFiles
           /\ outFiles[MirroredPath(i)] = run[i].wrote[Len(run[i].wrote)]

\* C11, witness: the record of in/a/b/c.pdf was saved in out/a/b/c.json
C11_Witness ==
  \E i \in Runs :
    /\ run[i].input_file_path = FileAt("in", <<"a", "b">>, "c", ".pdf")
    /\ run[i].pc = "done" /\ run[i].term = "Saved"
    /\ FileAt("out", <<"a", "b">>, "c", ".json") \in DOMAIN outFiles
    /\ <<"a">> \in outDirs /\ <<"a", "b">> \in outDirs

\* C12, as claimed: a run on a file that does not lie below the input folder
\* does not raise; it goes on to the conversion with the output path
\* <output folder>/<stem>.json, and the failure is logged.
C12_OutsideRootFallsBack ==
  \A i \in Runs :
    (~UnderInputRoot(i) /\ run[i].pc # "ready" /\ run[i].fault # "ready") =>
      /\ ~run[i].raised
      /\ run[i].term # "Raised"
      /\ run[i].output_json_path =
           FileAt("out", <<>>, run[i].input_file_path.stem, ".json")

(***************************************************************************)
(* Claims about a batch, continued (Spec).                                 *)
(***************************************************************************)
\* the conversion of the run failed: convert_to_pdf returned None, raised
\* (for an unsupported format or otherwise), or named a file that is not
\* there
ConversionFailed(i) ==
  \/ run[i].log \cap {"conversion_failed", "pdf_missing"} # {}
  \/ run[i].fault = "convert"
  \/ /\ get_input_format(run[i].input_file_path) = "ValueError"
     /\ run[i].fault = "" /\ run[i].pc \in {"except", "finally", "done"}

\* C13: a run whose conversion failed writes no output file, makes no page
\* count, extraction or classification call, goes through the cleanup of the
\* finally block and ends SkippedError without raising; the batch still
\* awaits every other task, each of which has its own terminal state when
\* the batch returns.
C13_ConversionFailureSkips ==
  /\ \A i \in Runs :
       ConversionFailed(i) =>
         /\ run[i].wrote = <<>>
         /\ \A p \in DOMAIN writers : i \notin writers[p]
         /\ run[i].page_count = 0 /\ run[i].extracted_text = NoText
         /\ run[i].ncls = 0 /\ run[i].ndeep = 0
         /\ ~run[i].raised
         /\ run[i].pc \in {"except", "finally", "done"}
         /\ run[i].pc \in {"finally", "done"} => run[i].term = "SkippedError"
         /\ run[i].pc = "done" => (TempExists(i) <=> run[i].unlinkFailed)
  /\ bpc = "returned" =>
       /\ results + caught = Len(tasks)
       /\ \A i \in Runs : run[i].term \in TerminalStates

\* C13, witness: the conversion of one document failed and left a partly
\* written file, which the cleanup removed, and another document of the batch
\* was saved
C13_Witness ==
  \E i, j \in Runs :
    /\ i # j /\ ConversionFailed(i) /\ run[i].pc = "done"
    /\ "conversion_failed" \in run[i].log /\ ~TempExists(i)
    /\ run[i].term = "SkippedError"
    /\ run[j].term = "Saved" /\ WroteOwnRecord(j)

(***************************************************************************)
(* Claims about classify_and_extract_with_gemini, continued                *)
(* (SpecClassify).                                                         *)
(***************************************************************************)
\* the call of the language model raised, or its reply is no JSON, or JSON
\* that is no object
GemNoObject ==
  \/ gem.reply.kind = "exception"
  \/ gem.reply.json # "object"

\* the reply is an object whose document_type is no string or names none of
\* the seven kinds
GemBadLabel ==
  /\ ~GemNoObject
  /\ \/ gem.reply.document_type = "<nonstring>"
     \/ /\ gem.reply.document_type # "<absent>"
        /\ Lower(gem.reply.document_type) \notin DocumentKinds

\* the reply is an object without a document_type
GemNoLabel == ~GemNoObject /\ gem.reply.document_type = "<absent>"

\* the reply is an object whose extracted_data is missing or is no mapping
GemBadPayload ==
  ~GemNoObject /\ gem.reply.extracted_data.shape \in {"absent", "nondict"}

\* the call returned a pair: one of the seven labels and a mapping
GemReturnedPair ==
  gem.doc_type \in DocumentKinds /\ gem.data.shape = "dict"

\* the call returned simple_text with a payload whose extracted_text is the
\* full original text
GemHoldsFullText ==
  /\ gem.doc_type = "simple_text"
  /\ "extracted_text" \in gem.data.keys /\ gem.data.text = gem.content

\* C14, as claimed: the call always returns a pair, and for an exception, a
\* reply that is no JSON object, a missing, non-string or unknown
\* document_type, or a missing or wrongly shaped extracted_data, the pair is
\* simple_text with the full original text.
C14_MalformedReplyFallsBack ==
  gem.pc = "returned" =>
    /\ GemReturnedPair
    /\ (GemNoObject \/ GemBadLabel \/ GemNoLabel \/ GemBadPayload)
         => GemHoldsFullText

\* C14, amended: the call always returns a pair; for an exception, a reply
\* that is no JSON object, a non-string or unknown document_type, or an
\* extracted_data that is missing or no mapping, the pair is simple_text
\* with the full original text; a reply without document_type is taken as
\* simple_text: its payload is returned as it is when it is a mapping with
\* an extracted_text key, and replaced by the full original text otherwise.
C14_MalformedReplyFallsBackOrSimple ==
  gem.pc = "returned" =>
    /\ GemReturnedPair
    /\ (GemNoObject \/ GemBadLabel \/ GemBadPayload) => GemFellBack
    /\ GemNoLabel =>
         /\ gem.doc_type = "simple_text"
         /\ IF IsDict(GemPayload) /\ "extracted_text" \in GemPayload.keys
            THEN gem.data = GemPayload ELSE GemFellBack

\* C14, witness: a reply whose document_type is no string came back as the
\* simple_text fallback with a text longer than the prompt could hold
C14_Witness ==
  /\ gem.pc = "returned" /\ gem.reply.kind = "text"
  /\ gem.reply.json = "object" /\ gem.reply.document_type = "<nonstring>"
  /\ gem.content.len > MAX_GEMINI_INPUT_LENGTH
  /\ GemFellBack /\ gem.data.text.len = gem.content.len

\* C15: for the five schema labels the call returns the label with the
\* payload of the reply unchanged exactly when the payload is a mapping with
\* every required field of the label; otherwise it returns simple_text.
C15_SchemaLabelKeptIffComplete ==
  (gem.pc = "returned" /\ GemIsObject /\ GemNamed \in SchemaKinds) =>
    /\ GemKept <=>
         (IsDict(GemPayload) /\ Required(GemNamed) \subseteq GemPayload.keys)
    /\ ~GemKept => gem.doc_type = "simple_text"

\* C15, witness: a complete purchase order with one more key was returned as
\* it came, under the label purchase_order
C15_Witness ==
  /\ gem.pc = "returned" /\ GemIsObject /\ GemNamed = "purchase_order"
  /\ IsDict(GemPayload)
  /\ GemPayload.keys = PURCHASE_ORDER_REQUIRED \cup {"notes"}
  /\ gem.doc_type = "purchase_order" /\ gem.data = GemPayload

(***************************************************************************)
(* Claims about one run, continued (SpecDoc).                              *)
(***************************************************************************)
\* C16, as claimed: a run that is over ended in exactly one of Saved,
\* SkippedEmpty and SkippedError, and wrote its output file at most once.
C16_EndsInOneTerminalState ==
  \A i \in Runs :
    /\ Len(run[i].wrote) <= 1
    /\ run[i].pc = "done" =>
         /\ run[i].term \in {"Saved", "SkippedEmpty", "SkippedError"}
         /\ ~run[i].raised

(***************************************************************************)
(* Claims about process_folder_recursive (Spec).                           *)
(***************************************************************************)
\* C17: when the input folder is no existing directory the call fails with
\* ValueError before any effect: no output directory, no temporary
\* directory, no task and no run.
C17_NotADirectoryFailsFirst ==
  ~inputIsDir =>
    /\ bpc \in {"start", "ValueError"}
    /\ outDirs = {} /\ outFiles = NoFiles
    /\ tempArea = "none" /\ tempFiles = {}
    /\ tasks = <<>> /\ run = <<>> /\ file_count = 0

\* C17, witness: the call failed with ValueError and nothing was made
C17_Witness ==
  ~inputIsDir /\ bpc = "ValueError" /\ outDirs = {} /\ tempArea = "none"

\* the entries of the input tree that are files with a supported extension
SupportedEntries ==
  {e \in tree :
     is_file(e, tree) /\ Lower(e.path.ext) \in SUPPORTED_EXTENSIONS}

\* C18: no run exists before the enumeration is over; the tasks are then one
\* per supported file; when process_folder_recursive returns every run it
\* made was started, is over and was awaited, whether it raised or not.
C18_EnumerateThenAwaitAll ==
  /\ bpc \in {"start", "setup", "enumerate", "ValueError"} =>
       run = <<>> /\ tasks = <<>>
  /\ bpc \in {"gather", "returned"} =>
       /\ DOMAIN run = DOMAIN tasks
       /\ Len(tasks) = Cardinality(SupportedEntries)
       /\ \A e \in SupportedEntries :
            \E k \in DOMAIN tasks : tasks[k] = e.target
  /\ bpc = "returned" =>
       /\ doneQ = <<>> /\ cur = 0
       /\ \A i \in Runs :
            /\ run[i].pc = "collected"
            /\ run[i].term \in TerminalStates

\* C18, witness: the batch returned after two runs, one that raised and one
\* that did not
C18_Witness ==
  /\ bpc = "returned" /\ Len(tasks) = 2
  /\ \E i, j \in Runs :
       /\ run[i].raised /\ ~run[j].raised
       /\ run[i].pc = "collected" /\ run[j].pc = "collected"

\* C19: the count of attempted documents is the number of supported files
\* enumerated, the count of completed ones is the number of runs that
\* returned; completed <= attempted, and a run that ended SkippedError inside
\* process_single_document counts as completed.
C19_CountsAttemptedAndReturned ==
  /\ results <= Len(tasks)
  /\ bpc \in {"gather", "returned"} =>
       /\ file_count = Len(tasks)
       /\ Len(tasks) = Cardinality(SupportedEntries)
  /\ bpc = "returned" =>
       /\ results = Cardinality({i \in Runs : ~run[i].raised})
       /\ results =
            Cardinality({i \in Runs :
               run[i].term \in {"Saved", "SkippedEmpty", "SkippedError"}})

\* C19, witness: of two documents one ended SkippedError and both count as
\* completed
C19_Witness ==
  /\ bpc = "returned" /\ Len(tasks) = 2 /\ results = 2
  /\ \E i \in Runs : run[i].term = "SkippedError"

(***************************************************************************)
(* Claims about the page count (SpecDoc).                                  *)
(***************************************************************************)
\* get_pdf_page_count was called in the run and returned 0
PageCountUnread(i) ==
  /\ run[i].page_count = 0
  /\ run[i].pc = "extract" \/ run[i].extracted_text.who = "doc"

\* C20: after a page count of 0 the run is not multi-page; it goes through
\* the extraction, the classification (whose prompt speaks of a single-page
\* document) and the emit, never calls the deep extractor, and ends
\* SkippedError only where a run of one page does: with an empty final
\* payload.
C20_UnreadPageCountIsSinglePage ==
  \A i \in Runs :
    PageCountUnread(i) =>
      /\ ~run[i].is_multi_page
      /\ run[i].ndeep = 0
      /\ run[i].pc \notin {"bank_extract", "await_llm2", "except"}
      /\ run[i].ncls > 0 =>
           run[i].prompt.page_context = "a single-page document"
      /\ (run[i].pc = "done" /\ ~IsBlank(run[i].extracted_text)) =>
           /\ run[i].ncls = 1
           /\ run[i].doc_type \in {"bank_statement", "simple_text"} =>
                run[i].term = "Saved"
           /\ run[i].term = "SkippedError" =>
                ("no_final_json" \in run[i].log
                   /\ run[i].doc_type \in SchemaKinds)

\* C20, witness: a bank statement whose page count was 0 was saved with the
\* payload of the classification, without a deep extraction
C20_Witness ==
  \E i \in Runs :
    /\ PageCountUnread(i) /\ run[i].pc = "done"
    /\ run[i].doc_type = "bank_statement" /\ run[i].term = "Saved"
    /\ run[i].ndeep = 0 /\ Holds(i, run[i].initial_extracted_data)

(***************************************************************************)
(* Claims about the records written (SpecDoc).                             *)
(***************************************************************************)
\* the record names the source file of the run
NamesSource(i, record) ==
  /\ "file_name" \in record.keys
  /\ record.file_name = [stem |-> run[i].input_file_path.stem,
                         ext |-> run[i].input_file_path.ext]

\* C21, as claimed: every record a run writes, whatever the label and the
\* path that produced it, holds the name of the source file next to the
\* payload.
C21_RecordNamesSource ==
  \A i \in Runs :
    \A k \in DOMAIN run[i].wrote : NamesSource(i, run[i].wrote[k])

\* the smaller of two numbers
Smaller(a, b) == IF a < b THEN a ELSE b

\* C22: the text in the prompt of the classifier is the first
\* MAX_GEMINI_INPUT_LENGTH characters of the primary text, and the truncation
\* is logged exactly when the primary text is longer; the record of a run
\* labelled simple_text holds the whole primary text and the name of the
\* source, whatever payload the classifier returned.
C22_PromptTruncatedRecordFull ==
  \A i \in Runs :
    /\ run[i].ncls > 0 =>
         /\ run[i].prompt.truncated_content.who = run[i].extracted_text.who
         /\ run[i].prompt.truncated_content.len =
              Smaller(run[i].extracted_text.len, MAX_GEMINI_INPUT_LENGTH)
         /\ run[i].prompt.truncation_warning <=>
              run[i].extracted_text.len > MAX_GEMINI_INPUT_LENGTH
    /\ (run[i].pc = "done" /\ run[i].doc_type = "simple_text") =>
         /\ Len(run[i].wrote) = 1
         /\ run[i].wrote[1].keys = {"file_name", "extracted_text"}
         /\ run[i].wrote[1].text = run[i].extracted_text
         /\ NamesSource(i, run[i].wrote[1])
         /\ Holds(i, run[i].wrote[1])

\* C22, witness: a primary text longer than the prompt can hold was cut in
\* the prompt and written whole in the simple_text record, although the
\* classifier had returned a payload with a text of its own
C22_Witness ==
  \E i \in Runs :
    /\ run[i].pc = "done" /\ run[i].doc_type = "simple_text"
    /\ run[i].extracted_text.len > MAX_GEMINI_INPUT_LENGTH
    /\ run[i].prompt.truncated_content.len = MAX_GEMINI_INPUT_LENGTH
    /\ run[i].prompt.truncation_warning
    /\ run[i].initial_extracted_data.text = LlmText
    /\ run[i].wrote[1].text = run[i].extracted_text

(***************************************************************************)
(* Claims about the temporary directory (Spec).                            *)
(***************************************************************************)
\* the step is the finally block of run i
FinallyStep(i) ==
  /\ i \in DOMAIN run /\ i \in DOMAIN run'
  /\ run[i].pc = "finally" /\ run'[i].pc = "done"

\* C24: the temporary directory exists only between its allocation and the
\* exit of process_folder_recursive, and is disposed of, with every file left
\* in it, when the call returns after a normal completion, an early return
\* for want of supported files or runs that raised; the finally block of a
\* run, whether its unlink fails or not, leaves the terminal state of the
\* run and the course of the batch as they were, a failed unlink being
\* logged as a warning.
C24_TempAreaDisposed ==
  /\ [](/\ tempArea = "allocated" <=> bpc \in {"enumerate", "gather"}
        /\ bpc = "returned" => (tempArea = "disposed" /\ tempFiles = {})
        /\ tempArea = "none" => tempFiles = {}
        /\ \A i \in Runs :
             run[i].unlinkFailed =>
               /\ "unlink_warning" \in run[i].log
               /\ ~run[i].raised
               /\ run[i].term \in {"Saved", "SkippedEmpty", "SkippedError"})
  /\ [][\A i \in DOMAIN run :
          FinallyStep(i) =>
            /\ run'[i].term = run[i].term
            /\ run'[i].raised = run[i].raised
            /\ run'[i].wrote = run[i].wrote
            /\ bpc' = bpc /\ outFiles' = outFiles]_vars

\* C24, witness: the unlink of a saved run failed; its intermediate file is
\* still in the temporary directory while the batch goes on
C24_Witness ==
  \E i \in Runs :
    /\ run[i].pc = "done" /\ run[i].unlinkFailed /\ run[i].term = "Saved"
    /\ TempExists(i) /\ tempArea = "allocated" /\ bpc = "gather"

(***************************************************************************)
(* C25: process_folder_endpoint answers a request whose input_folder is    *)
(* not an existing directory with an HTTP 400 error whose detail names the *)
(* folder, and a ValueError of process_folder_recursive with HTTP 400 as   *)
(* well; in neither case does an exception other than an HTTPException     *)
(* leave the handler.                                                      *)
(***************************************************************************)
C25_BadFolderAnswers400 ==
  (http.pc = "done" /\ http.cause \in {"not_a_directory", "ValueError"}) =>
    /\ http.leaves = "HTTPException"
    /\ http.status = 400
    /\ http.detail = FolderDetail

\* the regular files below the input folder with a supported extension
SupportedRegularFiles ==
  {e \in tree : e.kind = "file" /\ Lower(e.path.ext) \in SUPPORTED_EXTENSIONS}

(***************************************************************************)
(* C26: process_folder_recursive creates exactly one pipeline run for      *)
(* every regular file below the input root whose extension, compared       *)
(* case-insensitively, is in the supported set, and no pipeline run for    *)
(* any other file; when no file matches it returns without running a       *)
(* pipeline and without writing any record.                                *)
(***************************************************************************)
C26_OneRunPerSupportedFile ==
  /\ bpc \in {"gather", "returned"} =>
       /\ \A e \in SupportedRegularFiles :
            Cardinality({i \in DOMAIN tasks : tasks[i] = e.path}) = 1
       /\ \A i \in DOMAIN tasks :
            \E e \in SupportedRegularFiles : e.path = tasks[i]
  /\ (bpc = "returned" /\ SupportedEntries = {}) =>
       (run = <<>> /\ outFiles = NoFiles /\ results = 0)

\* the step is one of run i of process_single_document
RunStep(i) ==
  /\ i \in DOMAIN run /\ i \in DOMAIN run'
  /\ run'[i].pc # run[i].pc
  /\ run'[i].pc # "collected"

\* the output files the step created or wrote
Written ==
  {p \in DOMAIN outFiles' : p \notin DOMAIN outFiles \/ outFiles'[p] # outFiles[p]}

\* the input file of run i is in the input folder, as it was enumerated
SourceInPlace(i) ==
  \E e \in tree : e.kind = "file" /\ e.path = tasks[i]

PastEmit(i) == run[i].pc \in {"finally", "done"}

(***************************************************************************)
(* C28: every pair classify_and_extract_with_gemini returns has a label    *)
(* that is one of the seven document kinds (the reply's label in lower     *)
(* case when it is kept, simple_text for any label that is none of them),  *)
(* a payload that is a non-empty mapping, and a transactions list whenever *)
(* the label is bank_statement; hence for bank_statement and simple_text   *)
(* the final payload of the pipeline is never empty and the emit step      *)
(* writes it.                                                              *)
(***************************************************************************)
C28_ReturnedPairIsUsable ==
  \A i \in Runs :
    /\ Classified(i) =>
         /\ run[i].doc_type \in DocumentKinds
         /\ Lower(run[i].reply_label) \notin DocumentKinds =>
              run[i].doc_type = "simple_text"
         /\ run[i].doc_type # "simple_text" =>
              run[i].doc_type = Lower(run[i].reply_label)
         /\ IsDict(run[i].initial_extracted_data)
         /\ ~IsEmpty(run[i].initial_extracted_data)
         /\ run[i].doc_type = "bank_statement" =>
              TransactionsIsList(run[i].initial_extracted_data)
    /\ (Classified(i) /\ PastEmit(i)
        /\ run[i].doc_type \in {"bank_statement", "simple_text"}) =>
         /\ run[i].term = "Saved"
         /\ ~IsEmpty(run[i].final_json_output)
         /\ Holds(i, run[i].final_json_output)

\* a reply labelled Bank_Statement with a transactions list was kept as
\* bank_statement and its record was written
C28_Witness ==
  \E i \in Runs :
    /\ run[i].pc = "done" /\ run[i].reply_label = "Bank_Statement"
    /\ run[i].doc_type = "bank_statement" /\ run[i].term = "Saved"
    /\ Holds(i, run[i].final_json_output)
====
